---- MODULE Spec2Model ----
(***************************************************************************)
(* A model of rust-stt-mcp: the capture pipeline of src/src/audio.rs, the  *)
(* transcription adapter of src/src/transcribe.rs (the engine itself is a  *)
(* black box whose outcome is chosen nondeterministically) and the two     *)
(* tool handlers of src/src/main.rs, record_and_transcribe and             *)
(* listen_for_trigger, each run on a blocking worker.                      *)
(*                                                                         *)
(* Time is counted in whole seconds.  Each worker carries the value of     *)
(* start.elapsed(); std::thread::sleep(duration) advances it one second at *)
(* a time and a call of the engine advances it by the inference time.      *)
(* Samples are exact rationals <<numerator, denominator>>.                 *)
(***************************************************************************)
EXTENDS Integers, Sequences, FiniteSets, TLC

\* ------------------------------------------------------------ bounds

\* Largest timeout_secs a request may carry.
MaxTimeout == 4

\* Longest time, in seconds, one call of the engine may take.
MaxInfer == 1

\* Most batches the driver delivers to the data callback in one capture.
MaxBatches == 2

\* Most polling chunks the history of one request counts; the loop of
\* main.rs:105 stays below it for every timeout up to MaxTimeout.
MaxChunks == 4

\* ------------------------------------------------- program constants

\* main.rs:102  let chunk_duration = Duration::from_secs(2);
ChunkDuration == 2

\* audio.rs:73/76  the rate every captured buffer is brought to
TargetRate == 16000

\* audio.rs:46  i16::MAX
I16Max == 32767

\* The blocking workers of the model.  Spec runs one request at a time on
\* worker 1; the other worker stays idle there.
Workers == {1, 2}

\* duration_secs values a request may carry (main.rs:63, main.rs:92).
RecordDurations == {1, 2}

\* timeout_secs values a request may carry (main.rs:93).
Timeouts == 1..MaxTimeout

\* Device configurations default_input_config may report (audio.rs:15-21).
DeviceRates == {8000, 16000, 48000}
ChannelCounts == {1, 2}
SampleFormats == {"F32", "I16", "U16"}

\* ------------------------------------------------------- rationals

RECURSIVE GCD(_, _)
GCD(a, b) == IF b = 0 THEN a ELSE GCD(b, a % b)

Abs(n) == IF n < 0 THEN -n ELSE n

\* The rational n/d (d # 0) in lowest terms with a positive denominator.
Rat(n, d) ==
    LET g == GCD(Abs(n), Abs(d))
        s == IF d < 0 THEN -1 ELSE 1
    IN  <<(s * n) \div g, (s * d) \div g>>

RatAdd(a, b) ==
    LET g == GCD(a[2], b[2])
        l == (a[2] \div g) * b[2]
    IN  Rat(a[1] * (l \div a[2]) + b[1] * (l \div b[2]), l)

\* a * (n/d)
RatScale(a, n, d) ==
    LET g1 == GCD(Abs(a[1]), d)
        g2 == GCD(Abs(n), a[2])
    IN  IF n = 0 \/ a[1] = 0 THEN <<0, 1>>
        ELSE Rat((a[1] \div g1) * (n \div g2), (a[2] \div g2) * (d \div g1))

RECURSIVE RatSum(_)
RatSum(s) == IF s = <<>> THEN <<0, 1>> ELSE RatAdd(Head(s), RatSum(Tail(s)))

CeilDiv(a, b) == (a + b - 1) \div b

Min(a, b) == IF a < b THEN a ELSE b

\* ------------------------------------------------ f64 arithmetic
\* resample computes its ratio, its output length and its source positions
\* in f64 (audio.rs:86-91).  A positive f64 is modelled exactly, as
\* [m, e] standing for m * 2^e with 2^52 <= m < 2^53; m is held in limbs
\* of LimbBits bits, least significant first, since it does not fit the
\* integers of the checker.  Division and multiplication round to nearest,
\* ties to even, as IEEE 754 does.

\* f64 has a significand of 53 bits.
MantissaBits == 53

LimbBits == 15
Limb == 2^LimbBits
NLimbs == 5

BigOf(n) ==
    <<n % Limb, (n \div Limb) % Limb, n \div (Limb * Limb), 0, 0>>

RECURSIVE CmpFrom(_, _, _)
CmpFrom(a, b, k) ==
    IF k = 0 THEN 0
    ELSE IF a[k] > b[k] THEN 1
    ELSE IF a[k] < b[k] THEN -1
    ELSE CmpFrom(a, b, k - 1)

BigCmp(a, b) == CmpFrom(a, b, NLimbs)

BigIsZero(a) == \A k \in 1..NLimbs : a[k] = 0

RECURSIVE SubFrom(_, _, _, _)
SubFrom(a, b, k, borrow) ==
    IF k > NLimbs THEN <<>>
    ELSE LET t == a[k] - b[k] - borrow
         IN  <<IF t < 0 THEN t + Limb ELSE t>>
                \o SubFrom(a, b, k + 1, IF t < 0 THEN 1 ELSE 0)

\* a - b for a >= b
BigSub(a, b) == SubFrom(a, b, 1, 0)

RECURSIVE AddFrom(_, _, _)
AddFrom(a, k, carry) ==
    IF k > NLimbs THEN <<>>
    ELSE LET t == a[k] + carry
         IN  <<t % Limb>> \o AddFrom(a, k + 1, t \div Limb)

\* a + x for a small x
BigAddSmall(a, x) == AddFrom(a, 1, x)

RECURSIVE MulFrom(_, _, _, _)
MulFrom(a, x, k, carry) ==
    IF k > NLimbs THEN <<>>
    ELSE LET t == a[k] * x + carry
         IN  <<t % Limb>> \o MulFrom(a, x, k + 1, t \div Limb)

\* a * x for 0 <= x < 2^16
BigMulSmall(a, x) == MulFrom(a, x, 1, 0)

BigDouble(a) == BigMulSmall(a, 2)

BigOdd(a) == a[1] % 2 = 1

RECURSIVE SmallBitLen(_)
SmallBitLen(x) == IF x = 0 THEN 0 ELSE 1 + SmallBitLen(x \div 2)

RECURSIVE BitLenFrom(_, _)
BitLenFrom(a, k) ==
    IF k = 0 THEN 0
    ELSE IF a[k] # 0 THEN (k - 1) * LimbBits + SmallBitLen(a[k])
    ELSE BitLenFrom(a, k - 1)

BitLen(a) == BitLenFrom(a, NLimbs)

\* a * 2^s, whole limbs first and the remaining bits after
ShiftLeft(a, s) ==
    LET w == s \div LimbBits
    IN  BigMulSmall(SubSeq(BigOf(0), 1, w) \o SubSeq(a, 1, NLimbs - w),
                    2^(s % LimbBits))

RECURSIVE DivPow2From(_, _, _)
DivPow2From(a, b, k) ==
    IF k > NLimbs THEN <<>>
    ELSE <<(a[k] \div 2^b)
             + (IF k < NLimbs THEN (a[k + 1] % 2^b) * 2^(LimbBits - b) ELSE 0)>>
           \o DivPow2From(a, b, k + 1)

\* [v, g, st]: v is a shifted right by s bits, g the last bit shifted out
\* and st whether any bit shifted out before it was set.
ShiftRight(a, s) ==
    LET w       == s \div LimbBits
        b       == s % LimbBits
        kept    == SubSeq(a, w + 1, NLimbs) \o SubSeq(BigOf(0), 1, w)
        rem     == kept[1] % 2^b
        below   == \E k \in 1..(w - 1) : a[k] # 0
    IN  IF s = 0 THEN [v |-> a, g |-> 0, st |-> FALSE]
        ELSE IF b > 0
        THEN [v  |-> DivPow2From(kept, b, 1),
              g  |-> rem \div 2^(b - 1),
              st |-> rem % 2^(b - 1) # 0 \/ below \/ (w > 0 /\ a[w] # 0)]
        ELSE [v  |-> kept,
              g  |-> a[w] \div 2^(LimbBits - 1),
              st |-> a[w] % 2^(LimbBits - 1) # 0 \/ below]

\* The integer a small bignum stands for.
BigToInt(a) == a[1] + Limb * a[2]

\* Round to nearest, ties to even: x.v holds the leading MantissaBits bits
\* of a value v * 2^e, x.g and x.st what lies below them.
RoundTiesEven(x, e) ==
    LET up   == x.g = 1 /\ (x.st \/ BigOdd(x.v))
        m    == IF up THEN BigAddSmall(x.v, 1) ELSE x.v
    IN  IF BitLen(m) > MantissaBits
        THEN [m |-> ShiftRight(m, 1).v, e |-> e + 1]
        ELSE [m |-> m, e |-> e]

\* Binary long division: d = [q, r] after `steps` more quotient bits of
\* d.r / b, for d.r < b.
RECURSIVE LongDiv(_, _, _)
LongDiv(d, b, steps) ==
    IF steps = 0 THEN d
    ELSE LET r2 == BigDouble(d.r)
             q2 == BigDouble(d.q)
         IN  IF BigCmp(r2, b) >= 0
             THEN LongDiv([q |-> BigAddSmall(q2, 1), r |-> BigSub(r2, b)], b, steps - 1)
             ELSE LongDiv([q |-> q2, r |-> r2], b, steps - 1)

\* The f64 nearest to (a * 2^ea) / (b * 2^eb), for positive a and b of at
\* most MantissaBits bits.
F64Div(a, ea, b, eb) ==
    LET sa  == MantissaBits - BitLen(a)
        sb  == MantissaBits - BitLen(b)
        a1  == ShiftLeft(a, sa)
        b1  == ShiftLeft(b, sb)
        ge  == BigCmp(a1, b1) >= 0
        d   == IF ge THEN LongDiv([q |-> BigOf(1), r |-> BigSub(a1, b1)], b1, MantissaBits)
               ELSE LongDiv([q |-> BigOf(0), r |-> a1], b1, MantissaBits + 1)
        x   == [v |-> ShiftRight(d.q, 1).v, g |-> d.q[1] % 2, st |-> ~BigIsZero(d.r)]
        e   == (ea - sa) - (eb - sb) - (IF ge THEN MantissaBits ELSE MantissaBits + 1) + 1
    IN  RoundTiesEven(x, e)

\* The f64 nearest to i * f, for an integer 0 < i < 2^16.
F64MulInt(i, f) ==
    LET p == BigMulSmall(f.m, i)
        d == BitLen(p) - MantissaBits
    IN  RoundTiesEven(ShiftRight(p, d), f.e + d)

\* f as usize (truncation) for a positive f below 2^30
F64Floor(f) ==
    IF f.e >= 0 THEN BigToInt(ShiftLeft(f.m, f.e))
    ELSE IF -f.e >= MantissaBits THEN 0
    ELSE BigToInt(ShiftRight(f.m, -f.e).v)

\* f.ceil() as usize for a positive f below 2^30
F64Ceil(f) ==
    IF f.e >= 0 THEN BigToInt(ShiftLeft(f.m, f.e))
    ELSE IF -f.e >= MantissaBits THEN 1
    ELSE LET x == ShiftRight(f.m, -f.e)
         IN  BigToInt(x.v) + (IF x.g = 1 \/ x.st THEN 1 ELSE 0)

\* The rate pairs the model resamples between: each device rate to the
\* target rate, and rates chosen for their quotients, some exact in f64
\* (1/2, 3, 1/3) and some not (44100/16000, 3/47, 1/49, 7/3).
RatePairs ==
    {<<8000, 16000>>, <<48000, 16000>>, <<16000, 48000>>, <<44100, 16000>>,
     <<11025, 16000>>, <<16000, 16000>>, <<3, 47>>, <<1, 49>>, <<7, 3>>, <<2, 3>>}

\* The longest input resample is called on by itself.
MaxResampleLen == 6

\* The longest input whose output length is computed ahead.
MaxKnownLen == 8

\* The quotients of audio.rs:86-87 for the rate pairs above, computed once:
\* pairs of an argument and its value.
KnownRatios ==
    {<<p, F64Div(BigOf(p[1]), 0, BigOf(p[2]), 0)>> : p \in RatePairs}

Known(table, arg) == (CHOOSE t \in table : t[1] = arg)[2]

KnownLengths ==
    {<<a, F64Ceil(F64Div(BigOf(a[1]), 0, Known(KnownRatios, a[2]).m,
                         Known(KnownRatios, a[2]).e))>> :
        a \in (1..MaxKnownLen) \X RatePairs}

\* audio.rs:86  let ratio = from_rate as f64 / to_rate as f64
Ratio(from_rate, to_rate) ==
    IF <<from_rate, to_rate>> \in RatePairs
    THEN Known(KnownRatios, <<from_rate, to_rate>>)
    ELSE F64Div(BigOf(from_rate), 0, BigOf(to_rate), 0)

\* audio.rs:87  (input.len() as f64 / ratio).ceil() as usize
OutputLen(n, from_rate, to_rate) ==
    IF n <= MaxKnownLen /\ <<from_rate, to_rate>> \in RatePairs
    THEN Known(KnownLengths, <<n, <<from_rate, to_rate>>>>)
    ELSE LET ratio == Ratio(from_rate, to_rate)
         IN  F64Ceil(F64Div(BigOf(n), 0, ratio.m, ratio.e))

\* The output indices whose source index is computed ahead.
MaxKnownIdx == 24

KnownIndices ==
    {<<a, F64Floor(F64MulInt(a[1], Known(KnownRatios, a[2])))>> :
        a \in (1..MaxKnownIdx) \X RatePairs}

\* audio.rs:90-91  src_idx = i as f64 * ratio; idx = src_idx as usize
SrcIdx(i, from_rate, to_rate) ==
    IF i = 0 THEN 0
    ELSE IF i <= MaxKnownIdx /\ <<from_rate, to_rate>> \in RatePairs
    THEN Known(KnownIndices, <<i, <<from_rate, to_rate>>>>)
    ELSE F64Floor(F64MulInt(i, Ratio(from_rate, to_rate)))

\* ----------------------------------------------- audio.rs: the data

\* What the driver hands the data callback: f32 values for an F32 stream,
\* i16 values for an I16 stream.
F32Batches == { << <<1, 2>> >>, << <<1, 4>>, <<-1, 2>> >> }
I16Batches == { <<16384>>, <<32767, -8192>> }

DeviceBatches(fmt) == IF fmt = "I16" THEN I16Batches ELSE F32Batches

\* audio.rs:46  s as f32 / i16::MAX as f32
I16ToF32(s) == Rat(s, I16Max)

\* audio.rs:32 and audio.rs:45-46: the samples one delivery appends.
Converted(fmt, data) ==
    IF fmt = "I16" THEN [i \in 1..Len(data) |-> I16ToF32(data[i])] ELSE data

\* audio.rs:65  raw.chunks(channels): frames of `channels` values, the last
\* one shorter when the length is no multiple of channels.
Chunks(raw, channels) ==
    [f \in 1..CeilDiv(Len(raw), channels) |->
        SubSeq(raw, (f - 1) * channels + 1, Min(f * channels, Len(raw)))]

\* audio.rs:64-70
Downmix(raw, channels) ==
    IF channels >= 2
    THEN LET frames == Chunks(raw, channels)
         IN  [f \in 1..Len(frames) |-> RatScale(RatSum(frames[f]), 1, channels)]
    ELSE raw

\* An interpolation that reads input[idx + 1] one index too far.
InterpolatesOffByOne(idx, n) == idx + 1 <= n

\* audio.rs:92  if idx + 1 < input.len()
Interpolates(idx, n) == idx + 1 < n

\* audio.rs:92-96: the indices of input (from 0) read for source index idx.
SourceIndices(idx, n) ==
    IF Interpolates(idx, n) THEN {idx, idx + 1} ELSE {Min(idx, n - 1)}

\* audio.rs:81-100.  The length and the source indices are those of the
\* f64 arithmetic of the code; the two weights of an interpolated sample are
\* kept exact, frac being the exact fractional part of i * from / to.
\* Indices are those of the code (from 0); input[idx] is input[idx + 1] here.
resample(input, from_rate, to_rate) ==
    IF input = <<>> THEN <<>>
    ELSE LET n == Len(input)
             output_len == OutputLen(n, from_rate, to_rate)
             sample(i) ==
                 LET idx  == SrcIdx(i, from_rate, to_rate)
                     fnum == (i * from_rate) % to_rate
                 IN  IF Interpolates(idx, n)
                     THEN RatAdd(RatScale(input[idx + 1], to_rate - fnum, to_rate),
                                 RatScale(input[idx + 2], fnum, to_rate))
                     ELSE input[Min(idx, n - 1) + 1]
         IN  [i \in 1..output_len |-> sample(i - 1)]

\* audio.rs:72-77
Resampled(mono, device_rate) ==
    IF device_rate = TargetRate THEN mono ELSE resample(mono, device_rate, TargetRate)

\* audio.rs:61-77: what record returns for an accumulator.
Normalized(raw, channels, device_rate) ==
    Resampled(Downmix(raw, channels), device_rate)

\* ------------------------------------------------- main.rs: the text

\* A text is a sequence of characters, each a one-character string.
UpperChars == <<"A", "B", "C", "D", "E", "F", "G", "H", "I", "J", "K", "L", "M",
                "N", "O", "P", "Q", "R", "S", "T", "U", "V", "W", "X", "Y", "Z">>
LowerChars == <<"a", "b", "c", "d", "e", "f", "g", "h", "i", "j", "k", "l", "m",
                "n", "o", "p", "q", "r", "s", "t", "u", "v", "w", "x", "y", "z">>
DigitChars == <<"0", "1", "2", "3", "4", "5", "6", "7", "8", "9">>
SpaceChars == {" ", "\t", "\n"}

Range(s) == {s[i] : i \in DOMAIN s}

\* char::is_alphanumeric, char::is_whitespace (main.rs:123)
is_alphanumeric(c) == c \in Range(UpperChars) \cup Range(LowerChars) \cup Range(DigitChars)
is_whitespace(c) == c \in SpaceChars

\* str::to_lowercase (main.rs:121)
LowerOf(c) ==
    IF c \in Range(UpperChars)
    THEN LowerChars[CHOOSE i \in DOMAIN UpperChars : UpperChars[i] = c]
    ELSE c
to_lowercase(text) == [i \in DOMAIN text |-> LowerOf(text[i])]

\* A normalization that lowercases and removes nothing.
normalizedKeepingPunctuation(text) == to_lowercase(text)

\* main.rs:120-124
normalized(text) ==
    SelectSeq(to_lowercase(text), LAMBDA c : is_alphanumeric(c) \/ is_whitespace(c))

\* str::contains (main.rs:126)
contains(s, p) ==
    \E i \in 0..(Len(s) - Len(p)) : SubSeq(s, i + 1, i + Len(p)) = p

\* main.rs:126  "hey claude code"
TriggerPhrase == <<"h", "e", "y", " ", "c", "l", "a", "u", "d", "e", " ", "c", "o", "d", "e">>

\* main.rs:120-126: whether a polling chunk's text triggers.
Triggers(text) == contains(normalized(text), TriggerPhrase)

\* str::trim (transcribe.rs:42)
RECURSIVE TrimStart(_)
TrimStart(s) ==
    IF s # <<>> /\ is_whitespace(Head(s)) THEN TrimStart(Tail(s)) ELSE s
RECURSIVE TrimEnd(_)
TrimEnd(s) ==
    IF s # <<>> /\ is_whitespace(s[Len(s)]) THEN TrimEnd(SubSeq(s, 1, Len(s) - 1)) ELSE s
Trim(s) == TrimEnd(TrimStart(s))

\* The concatenated segments the engine may recognise (transcribe.rs:31-40):
\* the wake phrase as whisper writes it, a near miss, silence, a command.
EngineTexts ==
    { <<" ", "H", "e", "y", ",", " ", "C", "l", "a", "u", "d", "e", " ", "C", "o", "d", "e", "!">>,
      <<" ", "h", "e", "y", " ", "c", "l", "a", "u", "d", " ", "c", "o", "d", "e">>,
      <<>>,
      <<" ", "O", "p", "e", "n", " ", "i", "t", ".">> }

\* The failures of transcribe_with_context (transcribe.rs:16, 27, 35, 38).
TranscribeErrors ==
    { "failed to create whisper state", "whisper transcription failed",
      "failed to get segment", "failed to get segment text" }

\* The results of a call: Ok(v), Err(e), or a panic unwinding through it.
Ok(v) == [tag |-> "ok", val |-> v]
Err(e) == [tag |-> "err", val |-> e]
Panicked == [tag |-> "panic", val |-> <<"PoisonError">>]
Pending == [tag |-> "none", val |-> <<>>]

\* ---------------------------------------------------------- the state

VARIABLES
    task,      \* per worker: the request and the frame of its spawn_blocking closure
    rec,       \* per worker: the frame of the audio::record call in progress
    hist,      \* per worker: history of the request (what has happened so far)
    response,  \* per worker: the string the last handler call returned
    probe      \* one call of a pure function on its own: arguments and result

vars == <<task, rec, hist, response, probe>>

\* No request on the worker.
IdleTask ==
    [kind |-> "none", pc |-> "idle", record_duration |-> 0, timeout |-> 0,
     elapsed |-> 0, ctx |-> FALSE, samples |-> <<>>, result |-> Pending]

\* No call of audio::record in progress.
NoCall ==
    [rpc |-> "none", duration |-> 0, device_rate |-> 0, channels |-> 0,
     fmt |-> "none", stream |-> "none", samples |-> <<>>, err_flag |-> "None",
     poisoned |-> FALSE, slept |-> 0, raw |-> <<>>, mono |-> <<>>, ret |-> Pending]

\* No call of a pure function on its own.
NoProbe ==
    [pc |-> "none", input |-> <<>>, from_rate |-> 0, to_rate |-> 0, channels |-> 0,
     output |-> <<>>, reads |-> {}, panicked |-> FALSE, matched |-> FALSE]

NoHist ==
    [loads |-> 0, chunkCaptures |-> 0, finalCaptures |-> 0, chunkTranscribes |-> 0,
     finalTranscribes |-> 0, emptyChunks |-> 0, misses |-> 0, matchedAt |-> 0,
     failedAt |-> 0, lastCheck |-> 0, lastInfer |-> 0, finalText |-> <<>>,
     batches |-> 0, delivered |-> <<>>, engine |-> "none"]

Init ==
    /\ task = [w \in Workers |-> IdleTask]
    /\ rec = [w \in Workers |-> NoCall]
    /\ hist = [w \in Workers |-> NoHist]
    /\ response = [w \in Workers |-> <<>>]
    /\ probe = NoProbe

\* audio.rs:9  the call record(duration): a fresh frame.
Call(duration) == [NoCall EXCEPT !.rpc = "device", !.duration = duration]

\* The closure's frame once it has returned `result` (main.rs:77, main.rs:141)
\* or unwound: its locals are dropped.
Joined(t, result) ==
    [t EXCEPT !.pc = "joined", !.ctx = FALSE, !.samples = <<>>, !.result = result]

\* The history of a request at a call of record and after its return: the
\* deliveries counted are those of the call in progress.
AtCall(h) == [h EXCEPT !.batches = 0, !.delivered = <<>>]

\* ------------------------------------------------- audio.rs: record

\* audio.rs:10-13
default_input_device(w) ==
    /\ rec[w].rpc = "device"
    /\ \/ rec' = [rec EXCEPT ![w].rpc = "config"]
       \/ rec' = [rec EXCEPT ![w].rpc = "ret",
                             ![w].ret = Err(<<"no audio input device available">>)]
    /\ UNCHANGED <<task, hist, response>>
    /\ UNCHANGED probe

\* audio.rs:15-26
default_input_config(w) ==
    /\ rec[w].rpc = "config"
    /\ \/ \E rate \in DeviceRates, ch \in ChannelCounts, fmt \in SampleFormats :
            rec' = [rec EXCEPT ![w].rpc = "build", ![w].device_rate = rate,
                               ![w].channels = ch, ![w].fmt = fmt,
                               ![w].samples = <<>>, ![w].err_flag = "None"]
       \/ rec' = [rec EXCEPT ![w].rpc = "ret",
                             ![w].ret = Err(<<"failed to get default input config">>)]
    /\ UNCHANGED <<task, hist, response>>
    /\ UNCHANGED probe

\* audio.rs:28-55
build_input_stream(w) ==
    /\ rec[w].rpc = "build"
    /\ \/ /\ rec[w].fmt \in {"F32", "I16"}
          /\ rec' = [rec EXCEPT ![w].rpc = "play", ![w].stream = "built"]
       \/ /\ rec[w].fmt \in {"F32", "I16"}
          /\ rec' = [rec EXCEPT ![w].rpc = "ret",
                                ![w].ret = Err(<<"BuildStreamError">>)]
       \/ /\ rec[w].fmt \notin {"F32", "I16"}
          /\ rec' = [rec EXCEPT ![w].rpc = "ret",
                                ![w].ret = Err(<<"unsupported sample format: ", rec[w].fmt>>)]
    /\ UNCHANGED <<task, hist, response>>
    /\ UNCHANGED probe

\* A play whose failure path keeps the stream alive (a leaked handle).
play_leak(w) ==
    /\ rec[w].rpc = "play"
    /\ \/ rec' = [rec EXCEPT ![w].rpc = "sleep", ![w].stream = "playing", ![w].slept = 0]
       \/ rec' = [rec EXCEPT ![w].rpc = "ret",
                             ![w].ret = Err(<<"failed to start audio stream">>)]
    /\ UNCHANGED <<task, hist, response>>
    /\ UNCHANGED probe

\* audio.rs:57  stream.play(); on failure `?` returns and the stream, a
\* local of record, is dropped.
play(w) ==
    /\ rec[w].rpc = "play"
    /\ \/ rec' = [rec EXCEPT ![w].rpc = "sleep", ![w].stream = "playing", ![w].slept = 0]
       \/ rec' = [rec EXCEPT ![w].rpc = "ret", ![w].stream = "none",
                             ![w].ret = Err(<<"failed to start audio stream">>)]
    /\ UNCHANGED <<task, hist, response>>
    /\ UNCHANGED probe

\* audio.rs:58  one second of std::thread::sleep(duration)
sleep(w) ==
    /\ rec[w].rpc = "sleep"
    /\ rec[w].slept < rec[w].duration
    /\ rec' = [rec EXCEPT ![w].slept = @ + 1]
    /\ task' = [task EXCEPT ![w].elapsed = @ + 1]
    /\ UNCHANGED <<hist, response>>
    /\ UNCHANGED probe

\* A record without line 59: the stream lives until record returns, so the
\* accumulator is read while the callback may still run.
drop_stream_at_return(w) ==
    /\ rec[w].rpc = "sleep"
    /\ rec[w].slept = rec[w].duration
    /\ rec' = [rec EXCEPT ![w].rpc = "read"]
    /\ UNCHANGED <<task, hist, response>>
    /\ UNCHANGED probe

\* audio.rs:59  drop(stream), once the sleep is over
drop_stream(w) ==
    /\ rec[w].rpc = "sleep"
    /\ rec[w].slept = rec[w].duration
    /\ rec' = [rec EXCEPT ![w].rpc = "read", ![w].stream = "none"]
    /\ UNCHANGED <<task, hist, response>>
    /\ UNCHANGED probe

\* audio.rs:61  samples.lock().unwrap().clone(); unwrap panics on a poisoned
\* lock and the panic unwinds record and the closure that called it.
read_samples(w) ==
    /\ rec[w].rpc = "read"
    /\ IF rec[w].poisoned
       THEN /\ rec' = [rec EXCEPT ![w] = NoCall]
            /\ task' = [task EXCEPT ![w] = Joined(@, Panicked)]
            /\ hist' = [hist EXCEPT ![w] = AtCall(@)]
       ELSE /\ rec' = [rec EXCEPT ![w].rpc = "downmix", ![w].raw = rec[w].samples]
            /\ UNCHANGED <<task, hist>>
    /\ UNCHANGED response
    /\ UNCHANGED probe

\* audio.rs:63-70
downmix(w) ==
    /\ rec[w].rpc = "downmix"
    /\ rec' = [rec EXCEPT ![w].rpc = "resample",
                          ![w].mono = Downmix(rec[w].raw, rec[w].channels)]
    /\ UNCHANGED <<task, hist, response>>
    /\ UNCHANGED probe

\* A record that returns the accumulator as it was read, not normalized.
ReturnedRaw(r) == Ok(r.raw)

\* A record that fails when the driver has reported an error.
ReturnedUnlessError(r) ==
    IF r.err_flag # "None" THEN Err(<<r.err_flag>>)
    ELSE Ok(Resampled(r.mono, r.device_rate))

\* audio.rs:72-77: the value record returns from frame r.
Returned(r) == Ok(Resampled(r.mono, r.device_rate))

\* audio.rs:72-77
resample_return(w) ==
    /\ rec[w].rpc = "resample"
    /\ rec' = [rec EXCEPT ![w].rpc = "ret", ![w].ret = Returned(rec[w])]
    /\ UNCHANGED <<task, hist, response>>
    /\ UNCHANGED probe

\* audio.rs:31-33 and audio.rs:44-47: the driver delivers a batch while the
\* stream exists.  A poisoned lock makes lock().unwrap() panic before
\* anything is appended.
data_callback(w) ==
    /\ rec[w].stream # "none"
    /\ ~rec[w].poisoned
    /\ hist[w].batches < MaxBatches
    /\ \E data \in DeviceBatches(rec[w].fmt) :
          /\ rec' = [rec EXCEPT ![w].samples = @ \o Converted(rec[w].fmt, data)]
          /\ hist' = [hist EXCEPT ![w].batches = @ + 1,
                                  ![w].delivered = @ \o Converted(rec[w].fmt, data)]
    /\ UNCHANGED <<task, response>>
    /\ UNCHANGED probe

\* audio.rs:32, audio.rs:45: a panic in the data callback while it holds the
\* lock poisons it.
data_callback_panic(w) ==
    /\ rec[w].stream # "none"
    /\ ~rec[w].poisoned
    /\ rec' = [rec EXCEPT ![w].poisoned = TRUE]
    /\ UNCHANGED <<task, hist, response>>
    /\ UNCHANGED probe

\* An error slot shared by every open stream instead of one per call.
error_callback_shared(w) ==
    /\ rec[w].stream # "none"
    /\ rec' = [v \in Workers |->
                 IF rec[v].stream # "none"
                 THEN [rec[v] EXCEPT !.err_flag = "StreamError"] ELSE rec[v]]
    /\ UNCHANGED <<task, hist, response>>
    /\ UNCHANGED probe

\* audio.rs:34-36 and audio.rs:48-50: the driver reports an error.
error_callback(w) ==
    /\ rec[w].stream # "none"
    /\ rec' = [rec EXCEPT ![w].err_flag = "StreamError"]
    /\ UNCHANGED <<task, hist, response>>
    /\ UNCHANGED probe

\* ------------------------------------------ transcribe.rs: the engine

\* transcribe.rs:15-43: what a call of transcribe_with_context may return,
\* the recognised segments trimmed or one of its failures.
TranscribeOutcomes ==
    {Ok(Trim(t)) : t \in EngineTexts} \cup {Err(<<e>>) : e \in TranscribeErrors}

\* transcribe.rs:11  the failure of create_context
LoadError == <<"failed to load whisper model">>

\* -------------------------------------- main.rs: record_and_transcribe

\* main.rs:59-69: the request is accepted, its closure spawned, and the
\* closure calls audio::record(duration).
accept_record(w) ==
    /\ task[w].pc = "idle"
    /\ \E d \in RecordDurations :
          task' = [task EXCEPT ![w] = [IdleTask EXCEPT !.kind = "record_and_transcribe",
                                                      !.pc = "record",
                                                      !.record_duration = d]]
    /\ rec' = [rec EXCEPT ![w] = Call(task'[w].record_duration)]
    /\ hist' = [hist EXCEPT ![w] = [NoHist EXCEPT !.finalCaptures = 1]]
    /\ response' = [response EXCEPT ![w] = <<>>]
    /\ UNCHANGED probe

\* A closure without the is_empty test of line 71.
RecordedNoEmptyCheck(r) ==
    IF r.tag = "err" THEN Err(<<"recording failed: ">> \o r.val) ELSE Ok(r.val)

\* main.rs:68-73: what the closure does with the capture.
Recorded(r) ==
    IF r.tag = "err" THEN Err(<<"recording failed: ">> \o r.val)
    ELSE IF r.val = <<>> THEN Err(<<"no audio samples captured">>)
    ELSE Ok(r.val)

\* main.rs:68-73: record has returned.
rt_recorded(w) ==
    /\ task[w].pc = "record"
    /\ rec[w].rpc = "ret"
    /\ LET next == Recorded(rec[w].ret)
       IN  task' = [task EXCEPT ![w] =
               IF next.tag = "err" THEN Joined(@, next)
               ELSE [@ EXCEPT !.pc = "load", !.samples = next.val]]
    /\ rec' = [rec EXCEPT ![w] = NoCall]
    /\ hist' = [hist EXCEPT ![w] = AtCall(@)]
    /\ UNCHANGED response
    /\ UNCHANGED probe

\* main.rs:75 into transcribe.rs:46-47: transcribe loads the model.
rt_load(w) ==
    /\ task[w].pc = "load"
    /\ \/ /\ task' = [task EXCEPT ![w].pc = "transcribe", ![w].ctx = TRUE]
          /\ hist' = [hist EXCEPT ![w].loads = @ + 1]
       \/ /\ task' = [task EXCEPT ![w] =
                        Joined(@, Err(<<"transcription failed: ">> \o LoadError))]
          /\ UNCHANGED hist
    /\ UNCHANGED <<rec, response>>
    /\ UNCHANGED probe

\* main.rs:75-76 into transcribe.rs:48
rt_transcribe(w) ==
    /\ task[w].pc = "transcribe"
    /\ task[w].ctx
    /\ \E out \in TranscribeOutcomes, d \in 0..MaxInfer :
          /\ task' = [task EXCEPT ![w] =
                 Joined([@ EXCEPT !.elapsed = @ + d],
                        IF out.tag = "ok" THEN out
                        ELSE Err(<<"transcription failed: ">> \o out.val))]
          /\ hist' = [hist EXCEPT ![w].finalTranscribes = @ + 1, ![w].lastInfer = d,
                                  ![w].engine = out.tag,
                                  ![w].finalText = IF out.tag = "ok" THEN out.val ELSE @]
    /\ UNCHANGED <<rec, response>>
    /\ UNCHANGED probe

\* ----------------------------------------- main.rs: listen_for_trigger

\* main.rs:88-97: the request is accepted and its closure spawned.
accept_listen(w) ==
    /\ task[w].pc = "idle"
    /\ \E d \in RecordDurations, t \in Timeouts :
          task' = [task EXCEPT ![w] = [IdleTask EXCEPT !.kind = "listen_for_trigger",
                                                      !.pc = "create_context",
                                                      !.record_duration = d,
                                                      !.timeout = t]]
    /\ hist' = [hist EXCEPT ![w] = NoHist]
    /\ response' = [response EXCEPT ![w] = <<>>]
    /\ UNCHANGED rec
    /\ UNCHANGED probe

\* main.rs:98-102: the model is loaded, then start = Instant::now().
create_context(w) ==
    /\ task[w].pc = "create_context"
    /\ \/ /\ task' = [task EXCEPT ![w].pc = "loop", ![w].ctx = TRUE, ![w].elapsed = 0]
          /\ hist' = [hist EXCEPT ![w].loads = @ + 1]
       \/ /\ task' = [task EXCEPT ![w] =
                        Joined(@, Err(<<"failed to load model: ">> \o LoadError))]
          /\ UNCHANGED hist
    /\ UNCHANGED <<rec, response>>
    /\ UNCHANGED probe

\* A loop without a deadline.
TimeoutNever(elapsed, timeout) == FALSE

\* A check that allows one more chunk after the deadline.
TimeoutExceededLate(elapsed, timeout) == elapsed > timeout + ChunkDuration

\* A check that gives up when the next chunk would end after the deadline.
TimeoutExceededEarly(elapsed, timeout) == elapsed + ChunkDuration > timeout

\* main.rs:106  start.elapsed() > timeout
TimeoutExceeded(elapsed, timeout) == elapsed > timeout

TimeoutMessage == <<"Timed out waiting for \"Hey Claude Code\" trigger phrase.">>

\* main.rs:105-110: the top of the loop, the timeout check, and otherwise
\* the call audio::record(chunk_duration).
loop_top(w) ==
    /\ task[w].pc = "loop"
    /\ IF TimeoutExceeded(task[w].elapsed, task[w].timeout)
       THEN /\ task' = [task EXCEPT ![w] = Joined(@, Err(TimeoutMessage))]
            /\ UNCHANGED <<rec, hist>>
       ELSE /\ hist[w].chunkCaptures < MaxChunks
            /\ task' = [task EXCEPT ![w].pc = "record_chunk"]
            /\ rec' = [rec EXCEPT ![w] = Call(ChunkDuration)]
            /\ hist' = [hist EXCEPT ![w] = [AtCall(@) EXCEPT !.chunkCaptures = @ + 1,
                                                            !.lastCheck = task[w].elapsed,
                                                            !.lastInfer = 0]]
    /\ UNCHANGED response
    /\ UNCHANGED probe

\* A loop without the is_empty test of line 113.
ChunkRecordedNoEmptyCheck(r) ==
    IF r.tag = "err" THEN "fail" ELSE "transcribe"

\* main.rs:110-115: where the loop goes with what record returned.
ChunkRecorded(r) ==
    IF r.tag = "err" THEN "fail"
    ELSE IF r.val = <<>> THEN "continue"
    ELSE "transcribe"

\* main.rs:110-115: record has returned a polling chunk.
chunk_recorded(w) ==
    /\ task[w].pc = "record_chunk"
    /\ rec[w].rpc = "ret"
    /\ LET r == rec[w].ret
           next == ChunkRecorded(r)
       IN  /\ task' = [task EXCEPT ![w] =
                 CASE next = "fail" -> Joined(@, Err(<<"recording failed: ">> \o r.val))
                   [] next = "continue" -> [@ EXCEPT !.pc = "loop"]
                   [] OTHER -> [@ EXCEPT !.pc = "transcribe_chunk", !.samples = r.val]]
           /\ hist' = [hist EXCEPT ![w] =
                 [AtCall(@) EXCEPT !.emptyChunks =
                                       IF r.tag = "ok" /\ r.val = <<>> THEN @ + 1 ELSE @]]
    /\ rec' = [rec EXCEPT ![w] = NoCall]
    /\ UNCHANGED response
    /\ UNCHANGED probe

\* A transcription that loads the model again, as transcribe::transcribe
\* does (transcribe.rs:46-48).
LoadsAfterTranscribeReloading(loads) == loads + 1

\* main.rs:117, main.rs:139 into transcribe.rs:15-16: transcribe_with_context
\* borrows the context made at main.rs:98 and loads nothing.
LoadsAfterTranscribe(loads) == loads

\* A loop that never leaves on a match.
ChunkTranscribedNoBreak(out) ==
    IF out.tag = "err" THEN "fail" ELSE "continue"

\* A loop that skips a chunk whose transcription failed.
ChunkTranscribedSkipFailure(out) ==
    IF out.tag = "err" THEN "continue"
    ELSE IF Triggers(out.val) THEN "break"
    ELSE "continue"

\* main.rs:117-128: where the loop goes with the outcome of the transcription.
ChunkTranscribed(out) ==
    IF out.tag = "err" THEN "fail"
    ELSE IF Triggers(out.val) THEN "break"
    ELSE "continue"

\* main.rs:117-132: the chunk is transcribed and its text tested; on a match
\* the loop is left and audio::record(record_duration) is called.  The
\* history counts the texts that did and did not hold the phrase.
transcribe_chunk(w) ==
    /\ task[w].pc = "transcribe_chunk"
    /\ task[w].ctx
    /\ \E out \in TranscribeOutcomes, d \in 0..MaxInfer :
          LET t == [task[w] EXCEPT !.elapsed = @ + d, !.samples = <<>>]
              h == [hist[w] EXCEPT
                      !.chunkTranscribes = @ + 1,
                      !.loads = LoadsAfterTranscribe(@),
                      !.engine = out.tag,
                      !.lastInfer = d,
                      !.failedAt = IF out.tag = "err" THEN hist[w].chunkCaptures ELSE @,
                      !.misses = IF out.tag = "ok" /\ ~Triggers(out.val) THEN @ + 1 ELSE @,
                      !.matchedAt = IF out.tag = "ok" /\ Triggers(out.val) /\ @ = 0
                                    THEN hist[w].chunkCaptures ELSE @]
              next == ChunkTranscribed(out)
          IN  CASE next = "fail" ->
                   /\ task' = [task EXCEPT ![w] =
                          Joined(t, Err(<<"transcription failed: ">> \o out.val))]
                   /\ hist' = [hist EXCEPT ![w] = h]
                   /\ UNCHANGED rec
                [] next = "break" ->
                   /\ task' = [task EXCEPT ![w] = [t EXCEPT !.pc = "record_final"]]
                   /\ rec' = [rec EXCEPT ![w] = Call(task[w].record_duration)]
                   /\ hist' = [hist EXCEPT ![w] = [AtCall(h) EXCEPT !.finalCaptures = @ + 1]]
                [] OTHER ->
                   /\ task' = [task EXCEPT ![w] = [t EXCEPT !.pc = "loop"]]
                   /\ hist' = [hist EXCEPT ![w] = h]
                   /\ UNCHANGED rec
    /\ UNCHANGED response
    /\ UNCHANGED probe

\* A final pass without the is_empty test of line 135.
FinalRecordedNoEmptyCheck(r) ==
    IF r.tag = "err" THEN Err(<<"recording failed: ">> \o r.val) ELSE Ok(r.val)

\* main.rs:132-137: what the closure does with the capture after the trigger.
FinalRecorded(r) ==
    IF r.tag = "err" THEN Err(<<"recording failed: ">> \o r.val)
    ELSE IF r.val = <<>> THEN Err(<<"no audio samples captured after trigger">>)
    ELSE Ok(r.val)

\* A final pass that looks at the deadline once more before it goes on.
final_recorded_with_deadline(w) ==
    /\ task[w].pc = "record_final"
    /\ rec[w].rpc = "ret"
    /\ LET next == FinalRecorded(rec[w].ret)
       IN  task' = [task EXCEPT ![w] =
               IF TimeoutExceeded(task[w].elapsed, task[w].timeout)
               THEN Joined(@, Err(TimeoutMessage))
               ELSE IF next.tag = "err" THEN Joined(@, next)
               ELSE [@ EXCEPT !.pc = "transcribe_final", !.samples = next.val]]
    /\ rec' = [rec EXCEPT ![w] = NoCall]
    /\ hist' = [hist EXCEPT ![w] = AtCall(@)]
    /\ UNCHANGED response
    /\ UNCHANGED probe

\* main.rs:132-137: record has returned the capture after the trigger.
final_recorded(w) ==
    /\ task[w].pc = "record_final"
    /\ rec[w].rpc = "ret"
    /\ LET next == FinalRecorded(rec[w].ret)
       IN  task' = [task EXCEPT ![w] =
               IF next.tag = "err" THEN Joined(@, next)
               ELSE [@ EXCEPT !.pc = "transcribe_final", !.samples = next.val]]
    /\ rec' = [rec EXCEPT ![w] = NoCall]
    /\ hist' = [hist EXCEPT ![w] = AtCall(@)]
    /\ UNCHANGED response
    /\ UNCHANGED probe

\* main.rs:139-141
transcribe_final(w) ==
    /\ task[w].pc = "transcribe_final"
    /\ task[w].ctx
    /\ \E out \in TranscribeOutcomes, d \in 0..MaxInfer :
          /\ task' = [task EXCEPT ![w] =
                 Joined([@ EXCEPT !.elapsed = @ + d],
                        IF out.tag = "ok" THEN out
                        ELSE Err(<<"transcription failed: ">> \o out.val))]
          /\ hist' = [hist EXCEPT ![w].finalTranscribes = @ + 1, ![w].lastInfer = d,
                                  ![w].loads = LoadsAfterTranscribe(@),
                                  ![w].engine = out.tag,
                                  ![w].finalText = IF out.tag = "ok" THEN out.val ELSE @]
    /\ UNCHANGED <<rec, response>>
    /\ UNCHANGED probe

\* A handler that returns a domain error's text as it is.
MessageWithoutPrefix(result) ==
    CASE result.tag = "ok" -> result.val
      [] result.tag = "err" -> result.val
      [] OTHER -> <<"Error: ", "task failed: ">> \o result.val

\* main.rs:80-84 and main.rs:144-148: the handler turns the joined task's
\* result into the string it returns; the worker is free again.
Message(result) ==
    CASE result.tag = "ok" -> result.val
      [] result.tag = "err" -> <<"Error: ">> \o result.val
      [] OTHER -> <<"Error: ", "task failed: ">> \o result.val

respond(w) ==
    /\ task[w].pc = "joined"
    /\ response' = [response EXCEPT ![w] = Message(task[w].result)]
    /\ task' = [task EXCEPT ![w] = IdleTask]
    /\ UNCHANGED <<rec, hist>>
    /\ UNCHANGED probe

\* ------------------------------------------------- the specification

Step(w) ==
    \/ accept_record(w)
    \/ rt_recorded(w)
    \/ rt_load(w)
    \/ rt_transcribe(w)
    \/ accept_listen(w)
    \/ create_context(w)
    \/ loop_top(w)
    \/ chunk_recorded(w)
    \/ transcribe_chunk(w)
    \/ final_recorded(w)
    \/ transcribe_final(w)
    \/ respond(w)
    \/ default_input_device(w)
    \/ default_input_config(w)
    \/ build_input_stream(w)
    \/ play(w)
    \/ sleep(w)
    \/ drop_stream(w)
    \/ read_samples(w)
    \/ downmix(w)
    \/ resample_return(w)
    \/ data_callback(w)
    \/ data_callback_panic(w)
    \/ error_callback(w)

\* One request at a time, on worker 1.
Next == Step(1)

Spec == Init /\ [][Next]_vars

\* The requests of the two-worker specification: one-second captures from a
\* mono F32 device at the target rate, at most one delivered batch per
\* capture, a one-second timeout and engine calls that take no time.
SmallRequest(w) ==
    /\ task[w].record_duration <= 1
    /\ task[w].timeout <= 1
    /\ rec[w].device_rate \in {0, TargetRate}
    /\ rec[w].channels <= 1
    /\ rec[w].fmt \in {"none", "F32"}
    /\ hist[w].batches <= 1
    /\ hist[w].lastInfer = 0

\* main.rs:67, main.rs:97: each request runs in its own spawn_blocking
\* task while the handler awaits it, so the steps of two requests
\* interleave freely and a request is accepted whenever a worker is idle.
NextConcurrent ==
    \E w \in Workers :
       \/ accept_record(w) /\ SmallRequest(w)'
       \/ rt_recorded(w) /\ SmallRequest(w)'
       \/ rt_load(w) /\ SmallRequest(w)'
       \/ rt_transcribe(w) /\ SmallRequest(w)'
       \/ accept_listen(w) /\ SmallRequest(w)'
       \/ create_context(w) /\ SmallRequest(w)'
       \/ loop_top(w) /\ SmallRequest(w)'
       \/ chunk_recorded(w) /\ SmallRequest(w)'
       \/ transcribe_chunk(w) /\ SmallRequest(w)'
       \/ final_recorded(w) /\ SmallRequest(w)'
       \/ transcribe_final(w) /\ SmallRequest(w)'
       \/ respond(w) /\ SmallRequest(w)'
       \/ default_input_device(w) /\ SmallRequest(w)'
       \/ default_input_config(w) /\ SmallRequest(w)'
       \/ build_input_stream(w) /\ SmallRequest(w)'
       \/ play(w) /\ SmallRequest(w)'
       \/ sleep(w) /\ SmallRequest(w)'
       \/ drop_stream(w) /\ SmallRequest(w)'
       \/ read_samples(w) /\ SmallRequest(w)'
       \/ downmix(w) /\ SmallRequest(w)'
       \/ resample_return(w) /\ SmallRequest(w)'
       \/ data_callback(w) /\ SmallRequest(w)'
       \/ data_callback_panic(w) /\ SmallRequest(w)'
       \/ error_callback(w) /\ SmallRequest(w)'

SpecConcurrent == Init /\ [][NextConcurrent]_vars

\* ------------------------------------------------------- progress

\* The requests of the specification with fairness: any timeout and any
\* inference time, captures from a mono F32 device at the target rate with
\* at most one delivered batch, and one-second captures for the record
\* tool.
LiveRequest(w) ==
    /\ task[w].record_duration <= 1
    /\ rec[w].device_rate \in {0, TargetRate}
    /\ rec[w].channels <= 1
    /\ rec[w].fmt \in {"none", "F32"}
    /\ hist[w].batches <= 1

\* main.rs:67, main.rs:97, audio.rs:9-78: the steps the worker thread
\* itself takes: the statements of the closure and of record, the return
\* of each call into the engine or the audio host, and the handler's
\* answer after the join. Requests and the driver's callbacks are not
\* among them.
Progress(w) ==
    \/ rt_recorded(w) /\ LiveRequest(w)'
    \/ rt_load(w) /\ LiveRequest(w)'
    \/ rt_transcribe(w) /\ LiveRequest(w)'
    \/ create_context(w) /\ LiveRequest(w)'
    \/ loop_top(w) /\ LiveRequest(w)'
    \/ chunk_recorded(w) /\ LiveRequest(w)'
    \/ transcribe_chunk(w) /\ LiveRequest(w)'
    \/ final_recorded(w) /\ LiveRequest(w)'
    \/ transcribe_final(w) /\ LiveRequest(w)'
    \/ respond(w) /\ LiveRequest(w)'
    \/ default_input_device(w) /\ LiveRequest(w)'
    \/ default_input_config(w) /\ LiveRequest(w)'
    \/ build_input_stream(w) /\ LiveRequest(w)'
    \/ play(w) /\ LiveRequest(w)'
    \/ sleep(w) /\ LiveRequest(w)'
    \/ drop_stream(w) /\ LiveRequest(w)'
    \/ read_samples(w) /\ LiveRequest(w)'
    \/ downmix(w) /\ LiveRequest(w)'
    \/ resample_return(w) /\ LiveRequest(w)'

\* The steps of the environment: a request arrives, the driver calls one
\* of the stream's callbacks.
Environment(w) ==
    \/ accept_record(w) /\ LiveRequest(w)'
    \/ accept_listen(w) /\ LiveRequest(w)'
    \/ data_callback(w) /\ LiveRequest(w)'
    \/ data_callback_panic(w) /\ LiveRequest(w)'
    \/ error_callback(w) /\ LiveRequest(w)'

NextLive == Progress(1) \/ Environment(1)

\* A spawned blocking task keeps running: every call it makes returns and
\* thread::sleep wakes up, so a step of the worker that stays possible is
\* taken. Nothing is assumed of the requests or of the callbacks.
SpecLive == Init /\ [][NextLive]_vars /\ WF_vars(Progress(1))

\* --------------------------------------------- resample on its own

\* A signal of n samples, all different: 1/8, 2/8, ...
Signal(n) == [k \in 1..n |-> Rat(k, 8)]

\* audio.rs:81  the arguments of one call resample(input, from_rate, to_rate)
InitResample ==
    /\ task = [w \in Workers |-> IdleTask]
    /\ rec = [w \in Workers |-> NoCall]
    /\ hist = [w \in Workers |-> NoHist]
    /\ response = [w \in Workers |-> <<>>]
    /\ probe \in {[NoProbe EXCEPT !.pc = "resample", !.input = Signal(n),
                                  !.from_rate = p[1], !.to_rate = p[2]] :
                    n \in 0..MaxResampleLen, p \in RatePairs}

\* audio.rs:82-96: the indices of input (from 0) that a call reads, none
\* for the empty input, which returns at line 83.
ResampleReads(n, from_rate, to_rate) ==
    IF n = 0 THEN {}
    ELSE UNION {SourceIndices(SrcIdx(i, from_rate, to_rate), n) :
                   i \in 0..(OutputLen(n, from_rate, to_rate) - 1)}

\* audio.rs:81-100: the call runs; an index outside the input panics.
resample_call ==
    /\ probe.pc = "resample"
    /\ LET n == Len(probe.input)
           reads == ResampleReads(n, probe.from_rate, probe.to_rate)
           inside == reads \subseteq 0..(n - 1)
       IN  probe' = [probe EXCEPT
                       !.pc = "resampled",
                       !.reads = reads,
                       !.panicked = ~inside,
                       !.output = IF inside
                                  THEN resample(probe.input, probe.from_rate, probe.to_rate)
                                  ELSE <<>>]
    /\ UNCHANGED <<task, rec, hist, response>>

NextResample == resample_call

SpecResample == InitResample /\ [][NextResample]_vars

\* ---------------------------------------------- the downmix on its own

\* The longest raw buffer the downmix is run on by itself.
MaxRawLen == 4

RawValues == {Rat(1, 2), Rat(-1, 4)}

ProbeChannels == {1, 2, 3}

\* audio.rs:61  the accumulator as read: any buffer, of any length
RawBuffers == UNION {[1..n -> RawValues] : n \in 0..MaxRawLen}

InitDownmix ==
    /\ task = [w \in Workers |-> IdleTask]
    /\ rec = [w \in Workers |-> NoCall]
    /\ hist = [w \in Workers |-> NoHist]
    /\ response = [w \in Workers |-> <<>>]
    /\ probe \in {[NoProbe EXCEPT !.pc = "downmix", !.input = raw, !.channels = c] :
                    raw \in RawBuffers, c \in ProbeChannels}

\* audio.rs:64-70
downmix_call ==
    /\ probe.pc = "downmix"
    /\ probe' = [probe EXCEPT !.pc = "downmixed",
                              !.output = Downmix(probe.input, probe.channels)]
    /\ UNCHANGED <<task, rec, hist, response>>

NextDownmix == downmix_call

SpecDownmix == InitDownmix /\ [][NextDownmix]_vars

\* ------------------------------------------ the trigger test on its own

\* transcribe.rs:31-42: texts the engine may return for a polling chunk,
\* put together from a start, a greeting, the two names and what lies
\* between and after them.
Starts == {<<>>, <<"s", "o", " ">>, <<"s", "o">>}
Greetings == {<<"H", "e", "y">>, <<"H", "E", "Y">>, <<"h", "e", "y", ",">>, <<"h", "e">>}
Gaps == {<<" ">>, <<" ", " ">>, <<",", " ">>, <<"-">>, <<"\t">>, <<>>}
Claudes == {<<"C", "l", "a", "u", "d", "e">>, <<"c", "l", "a", "u", "d">>}
Codes == {<<"C", "o", "d", "e">>, <<"c", "0", "d", "e">>}
Ends == {<<>>, <<"!">>, <<" ", "n", "o", "w">>}

ChunkTexts ==
    {a \o g \o x \o c \o y \o d \o e :
        a \in Starts, g \in Greetings, x \in Gaps, c \in Claudes,
        y \in Gaps, d \in Codes, e \in Ends}

InitTrigger ==
    /\ task = [w \in Workers |-> IdleTask]
    /\ rec = [w \in Workers |-> NoCall]
    /\ hist = [w \in Workers |-> NoHist]
    /\ response = [w \in Workers |-> <<>>]
    /\ probe \in {[NoProbe EXCEPT !.pc = "text", !.input = t] : t \in ChunkTexts}

\* main.rs:117-128: the loop tests the text of a chunk; the text itself is
\* left as the engine gave it.
trigger_test ==
    /\ probe.pc = "text"
    /\ probe' = [probe EXCEPT !.pc = "tested",
                              !.matched = ChunkTranscribed(Ok(probe.input)) = "break",
                              !.output = probe.input]
    /\ UNCHANGED <<task, rec, hist, response>>

NextTrigger == trigger_test

SpecTrigger == InitTrigger /\ [][NextTrigger]_vars

\* ----------------------------------------------------------- claims

\* The request has ended with the timeout error of main.rs:107.
TimedOut(w) ==
    /\ task[w].pc = "joined"
    /\ task[w].result.tag = "err"
    /\ task[w].result.val = <<"Timed out waiting for \"Hey Claude Code\" trigger phrase.">>

\* record has returned Ok(<<>>) to the closure, which has not yet gone on.
EmptyReturned(w) ==
    /\ rec[w].rpc = "ret"
    /\ rec[w].ret.tag = "ok"
    /\ rec[w].ret.val = <<>>

\* C1: when the k-th polling chunk is the first whose normalized text holds
\* the trigger phrase, exactly k polling chunks have been captured and none
\* is captured afterwards; one capture of record_duration follows, at most one
\* more transcription, and a successful call returns that transcription's text.
C1_MatchThenOneFinalPass ==
    \A w \in Workers :
        hist[w].matchedAt > 0 =>
            /\ hist[w].chunkCaptures = hist[w].matchedAt
            /\ hist[w].chunkTranscribes = hist[w].misses + 1
            /\ hist[w].misses + hist[w].emptyChunks + 1 = hist[w].matchedAt
            /\ hist[w].finalCaptures = 1
            /\ hist[w].finalTranscribes <= 1
            /\ task[w].pc \in {"record_final", "transcribe_final", "joined", "idle"}
            /\ task[w].pc = "record_final" => rec[w].duration = task[w].record_duration
            /\ task[w].pc \in {"record_final", "transcribe_final"} => hist[w].finalTranscribes = 0
            /\ (task[w].pc = "joined" /\ task[w].result.tag = "ok") =>
                  /\ hist[w].finalTranscribes = 1
                  /\ task[w].result.val = hist[w].finalText

\* C1 witness: the third chunk matched and the call returned a text.
C1_Witness ==
    \E w \in Workers :
        /\ hist[w].matchedAt = 3
        /\ task[w].pc = "joined"
        /\ task[w].result.tag = "ok"
        /\ task[w].result.val # <<>>

\* C2: the timeout is checked at the top of each iteration and only there:
\* with the timeout exceeded at the top of the loop the call ends with the
\* timeout error and starts no capture; otherwise the chunk is captured; the
\* timeout error arises nowhere else, and nothing is captured after it.
C2_TimeoutAtLoopTopOnly ==
    [][\A w \in Workers :
          /\ (task[w].pc = "loop" /\ task[w].elapsed > task[w].timeout /\ task'[w] # task[w])
                => /\ TimedOut(w)'
                   /\ rec'[w] = NoCall
                   /\ hist'[w] = hist[w]
          /\ (task[w].pc = "loop" /\ task[w].elapsed <= task[w].timeout /\ task'[w] # task[w])
                => /\ task'[w].pc = "record_chunk"
                   /\ hist'[w].chunkCaptures = hist[w].chunkCaptures + 1
          /\ (TimedOut(w)' /\ ~TimedOut(w))
                => task[w].pc = "loop" /\ task[w].elapsed > task[w].timeout
          /\ TimedOut(w) => (rec'[w] = NoCall /\ hist'[w] = hist[w])
          /\ hist'[w].chunkCaptures > hist[w].chunkCaptures => task[w].pc = "loop"
      ]_vars

\* C2 witness: a call that has timed out after polling.
C2_Witness ==
    \E w \in Workers : TimedOut(w) /\ hist[w].chunkCaptures >= 2

\* C3 as stated: a call that times out does so at an elapsed time of at
\* least T and at most T + C.
C3_OverrunAtMostOneChunk ==
    \A w \in Workers :
        TimedOut(w) =>
            /\ task[w].elapsed >= task[w].timeout
            /\ task[w].elapsed <= task[w].timeout + ChunkDuration

\* C3 amended: a call that times out does so at an elapsed time of at least T
\* and at most T + C + the time the last chunk's transcription took.
C3_OverrunAtMostOneIteration ==
    \A w \in Workers :
        TimedOut(w) =>
            /\ task[w].elapsed >= task[w].timeout
            /\ hist[w].lastCheck <= task[w].timeout
            /\ task[w].elapsed = hist[w].lastCheck + ChunkDuration + hist[w].lastInfer
            /\ task[w].elapsed <= task[w].timeout + ChunkDuration + hist[w].lastInfer

\* C3 witness: T = 3 and the call timed out at T + C + 1.
C3_Witness ==
    \E w \in Workers :
        /\ TimedOut(w)
        /\ task[w].timeout = 3
        /\ hist[w].lastInfer = 1
        /\ task[w].elapsed = 3 + ChunkDuration + 1

\* C4: a transcription failure on a polling chunk ends the detection with a
\* transcription error; no chunk is captured after it, the capture after the
\* trigger never happens, and the failure is neither skipped nor retried.
C4_ChunkTranscriptionFailureAborts ==
    \A w \in Workers :
        hist[w].failedAt > 0 =>
            /\ hist[w].chunkCaptures = hist[w].failedAt
            /\ hist[w].chunkTranscribes + hist[w].emptyChunks = hist[w].failedAt
            /\ hist[w].finalCaptures = 0
            /\ hist[w].finalTranscribes = 0
            /\ hist[w].matchedAt = 0
            /\ rec[w] = NoCall
            /\ task[w].pc \in {"joined", "idle"}
            /\ task[w].pc = "joined" =>
                  /\ task[w].result.tag = "err"
                  /\ Head(task[w].result.val) = "transcription failed: "
            /\ task[w].pc = "idle" =>
                  /\ Len(response[w]) = 3
                  /\ response[w][1] = "Error: "
                  /\ response[w][2] = "transcription failed: "

\* C4 witness: the second chunk's transcription failed.
C4_Witness ==
    \E w \in Workers : hist[w].failedAt = 2 /\ task[w].pc = "joined"

\* C5: an empty polling chunk is never handed to the transcription adapter
\* and never ends the detection: the closure goes back to the top of the loop
\* with nothing transcribed, no match and no error.
C5_EmptyChunkContinues ==
    /\ [](\A w \in Workers :
            /\ task[w].pc = "transcribe_chunk" => task[w].samples # <<>>
            /\ hist[w].chunkTranscribes + hist[w].emptyChunks <= hist[w].chunkCaptures)
    /\ [][\A w \in Workers :
            (task[w].pc = "record_chunk" /\ EmptyReturned(w) /\ task'[w] # task[w])
                => /\ task'[w] = [task[w] EXCEPT !.pc = "loop"]
                   /\ rec'[w] = NoCall
                   /\ hist'[w].emptyChunks = hist[w].emptyChunks + 1
                   /\ hist'[w].chunkTranscribes = hist[w].chunkTranscribes
                   /\ hist'[w].matchedAt = 0
                   /\ hist'[w].failedAt = 0
       ]_vars

\* C5 witness: back at the top of the loop after two empty chunks.
C5_Witness ==
    \E w \in Workers :
        /\ task[w].pc = "loop"
        /\ hist[w].emptyChunks = 2
        /\ hist[w].chunkTranscribes = 0

\* The request has ended with the error of main.rs:136.
NoAudioAfterTrigger(w) ==
    /\ task[w].pc = "joined"
    /\ task[w].result.tag = "err"
    /\ task[w].result.val = <<"no audio samples captured after trigger">>

\* C6: an empty capture after the trigger ends the call with the error "no
\* audio samples captured after trigger", which no other case produces; it is
\* not transcribed and never returned as a success.
C6_EmptyFinalCaptureIsAnError ==
    /\ [](\A w \in Workers :
            /\ task[w].pc = "transcribe_final" => task[w].samples # <<>>
            /\ NoAudioAfterTrigger(w) =>
                  (hist[w].matchedAt > 0 /\ hist[w].finalTranscribes = 0))
    /\ [][\A w \in Workers :
            /\ (task[w].pc = "record_final" /\ EmptyReturned(w) /\ task'[w] # task[w])
                  => /\ NoAudioAfterTrigger(w)'
                     /\ hist'[w].finalTranscribes = 0
            /\ (NoAudioAfterTrigger(w)' /\ ~NoAudioAfterTrigger(w))
                  => (task[w].pc = "record_final" /\ EmptyReturned(w))
            /\ (NoAudioAfterTrigger(w) /\ task'[w] # task[w])
                  => response'[w] = <<"Error: ", "no audio samples captured after trigger">>
       ]_vars

\* C6 witness: a call ended by an empty capture after the trigger.
C6_Witness ==
    \E w \in Workers : NoAudioAfterTrigger(w) /\ hist[w].finalCaptures = 1

\* C7: in a request the stages run in the order capture, downmix, resample,
\* transcription: the accumulator is read and normalized only with the stream
\* torn down, record returns the resampled downmix of what it read, and a
\* transcription starts only with record returned and is given that buffer.
C7_StagesInOrder ==
    /\ [](\A w \in Workers :
            /\ rec[w].rpc \in {"read", "downmix", "resample", "ret"} => rec[w].stream = "none"
            /\ rec[w].rpc \in {"device", "config", "build", "play", "sleep", "read"} =>
                  (rec[w].raw = <<>> /\ rec[w].mono = <<>>)
            /\ rec[w].rpc = "downmix" => rec[w].mono = <<>>
            /\ rec[w].rpc = "resample" =>
                  rec[w].mono = Downmix(rec[w].raw, rec[w].channels)
            /\ (rec[w].rpc = "ret" /\ rec[w].ret.tag = "ok") =>
                  rec[w].ret.val =
                      Resampled(Downmix(rec[w].raw, rec[w].channels), rec[w].device_rate)
            /\ task[w].pc \in {"load", "transcribe", "transcribe_chunk", "transcribe_final"} =>
                  (rec[w] = NoCall /\ task[w].samples # <<>>)
            /\ task[w].pc \in {"record", "record_chunk", "record_final"} =>
                  (rec[w].rpc # "none" /\ task[w].samples = <<>>)
            /\ hist[w].chunkTranscribes + hist[w].emptyChunks <=
                  hist[w].chunkCaptures - (IF task[w].pc = "record_chunk" THEN 1 ELSE 0)
            /\ hist[w].finalTranscribes <=
                  hist[w].finalCaptures -
                      (IF task[w].pc \in {"record", "record_final"} THEN 1 ELSE 0))
    /\ [][\A w \in Workers :
            (task'[w].pc \in {"load", "transcribe_chunk", "transcribe_final"}
                /\ task'[w].pc # task[w].pc)
                => /\ rec[w].rpc = "ret"
                   /\ rec[w].ret.tag = "ok"
                   /\ task'[w].samples = rec[w].ret.val
       ]_vars

\* C7 witness: a stereo 48 kHz capture of three samples, normalized, is about
\* to be transcribed.
C7_Witness ==
    \E w \in Workers :
        /\ task[w].pc = "transcribe_chunk"
        /\ task[w].samples = << <<3, 8>> >>

\* C8: record never holds a stream outside lines 28-59, so on every way out
\* (a return, an error, a panic) the stream is released before record is left.
C8_StreamReleasedOnExit ==
    \A w \in Workers :
        /\ rec[w].stream # "none" => rec[w].rpc \in {"play", "sleep"}
        /\ rec[w].rpc \in {"ret", "none"} => rec[w].stream = "none"
        /\ task[w].pc \notin {"record", "record_chunk", "record_final"} => rec[w] = NoCall

\* C8 witness: record has returned the stream-start error, the stream built
\* before it released.
C8_Witness ==
    \E w \in Workers :
        /\ rec[w].rpc = "ret"
        /\ rec[w].ret.tag = "err"
        /\ rec[w].ret.val = <<"failed to start audio stream">>
        /\ hist[w].batches > 0

\* C9: an error the driver reports during a capture is stored in the error
\* slot and changes nothing else: the sleep still runs its full duration and
\* record returns Ok with the normalized samples the data callback appended.
C9_AsyncErrorDoesNotAbort ==
    /\ [](\A w \in Workers :
            rec[w].err_flag # "None" =>
                /\ rec[w].rpc \in {"read", "downmix", "resample"} =>
                      rec[w].slept = rec[w].duration
                /\ rec[w].rpc = "ret" =>
                      IF rec[w].ret.tag = "ok"
                      THEN /\ rec[w].slept = rec[w].duration
                           /\ rec[w].ret.val =
                                  Normalized(hist[w].delivered, rec[w].channels,
                                             rec[w].device_rate)
                      ELSE rec[w].ret.val = <<"failed to start audio stream">>)
    /\ [][\A w \in Workers :
            (rec[w].stream # "none" /\ rec'[w].err_flag # rec[w].err_flag)
                => /\ rec'[w] = [rec[w] EXCEPT !.err_flag = "StreamError"]
                   /\ task'[w] = task[w]
                   /\ hist'[w] = hist[w]
       ]_vars

\* C9 witness: record has returned samples although an error was reported.
C9_Witness ==
    \E w \in Workers :
        /\ rec[w].rpc = "ret"
        /\ rec[w].err_flag # "None"
        /\ rec[w].ret.tag = "ok"
        /\ rec[w].ret.val # <<>>

\* C10: the accumulator is read only with the stream torn down, no callback
\* appends to it after the read, and what is read is the concatenation, in
\* delivery order, of the batches delivered during the call.
C10_ReadAfterTeardown ==
    /\ [](\A w \in Workers :
            /\ rec[w].rpc = "read" => rec[w].stream = "none"
            /\ (rec[w].rpc \in {"downmix", "resample"}
                  \/ (rec[w].rpc = "ret" /\ rec[w].ret.tag = "ok")) =>
                  /\ rec[w].raw = hist[w].delivered
                  /\ rec[w].samples = rec[w].raw)
    /\ [][\A w \in Workers :
            rec[w].rpc \in {"read", "downmix", "resample", "ret"} =>
                (rec'[w].samples = rec[w].samples \/ rec'[w] = NoCall)
       ]_vars

\* C10 witness: two batches were delivered and read back in that order.
C10_Witness ==
    \E w \in Workers :
        /\ rec[w].rpc = "downmix"
        /\ hist[w].batches = 2
        /\ rec[w].raw = << <<1, 2>>, <<1, 4>>, <<-1, 2>> >>

\* The request has ended with the model-load error of main.rs:98-99.
ModelLoadFailed(w) ==
    /\ task[w].pc = "joined"
    /\ task[w].result.tag = "err"
    /\ task[w].result.val[1] = "failed to load model: "

\* C11: in one listen_for_trigger call the model is loaded exactly once,
\* before any capture is started, and every transcription of the call runs
\* with that one session; a failed load ends the call with the model-load
\* error at once, with no capture started and no second attempt.
C11_OneSessionBeforeAnyCapture ==
    /\ [](\A w \in Workers :
            task[w].kind = "listen_for_trigger" =>
              /\ hist[w].loads <= 1
              /\ task[w].pc = "create_context" =>
                    /\ hist[w].loads = 0
                    /\ hist[w].chunkCaptures = 0 /\ hist[w].finalCaptures = 0
                    /\ rec[w] = NoCall
              /\ hist[w].chunkCaptures + hist[w].finalCaptures > 0 => hist[w].loads = 1
              /\ hist[w].chunkTranscribes + hist[w].finalTranscribes > 0 =>
                    hist[w].loads = 1
              /\ task[w].pc \in {"loop", "record_chunk", "transcribe_chunk",
                                 "record_final", "transcribe_final"} =>
                    task[w].ctx /\ hist[w].loads = 1
              /\ ModelLoadFailed(w) =>
                    /\ hist[w].loads = 0
                    /\ hist[w].chunkCaptures = 0 /\ hist[w].finalCaptures = 0
                    /\ hist[w].chunkTranscribes = 0 /\ hist[w].finalTranscribes = 0
                    /\ rec[w] = NoCall)
    /\ [][\A w \in Workers :
            /\ task[w].pc = "create_context" /\ task'[w] # task[w] =>
                  \/ task'[w].pc = "loop" /\ hist'[w].loads = 1
                  \/ ModelLoadFailed(w)'
            /\ ModelLoadFailed(w) /\ task'[w] # task[w] =>
                  /\ task'[w].pc = "idle"
                  /\ response'[w] = <<"Error: ", "failed to load model: ">> \o LoadError]_vars

\* A call that loaded once, polled twice with a transcription each, matched
\* and is in its final transcription with the same session.
C11_Witness ==
    /\ task[1].kind = "listen_for_trigger"
    /\ task[1].pc = "transcribe_final"
    /\ task[1].ctx
    /\ hist[1].loads = 1
    /\ hist[1].chunkTranscribes = 2

\* The first words of the errors the two closures can return.
DomainErrors ==
    {"recording failed: ", "no audio samples captured",
     "no audio samples captured after trigger", "failed to load model: ",
     "transcription failed: ",
     "Timed out waiting for \"Hey Claude Code\" trigger phrase."}

\* C12: whatever a request ends with, the handler returns a string: a
\* success is returned as it is, every domain error (capture, empty
\* capture, model load, transcription, timeout) behind the prefix
\* "Error: ", and a panicked worker task as "Error: task failed: ...",
\* which no domain error starts with; the worker is then free and the
\* server accepts the next request of either kind.
C12_FailuresBecomeErrorStrings ==
    /\ [](\A w \in Workers :
            /\ task[w].pc = "joined" =>
                  /\ task[w].result.tag \in {"ok", "err", "panic"}
                  /\ task[w].result.tag = "err" => task[w].result.val[1] \in DomainErrors
            /\ task[w].pc = "idle" =>
                  (ENABLED accept_record(w)) /\ (ENABLED accept_listen(w)))
    /\ [][\A w \in Workers :
            task[w].pc = "joined" /\ task'[w] # task[w] =>
              /\ task'[w] = IdleTask
              /\ rec'[w] = NoCall
              /\ task[w].result.tag = "ok" => response'[w] = task[w].result.val
              /\ task[w].result.tag = "err" =>
                    /\ response'[w] = <<"Error: ">> \o task[w].result.val
                    /\ response'[w][2] # "task failed: "
              /\ task[w].result.tag = "panic" =>
                    /\ response'[w][1] = "Error: "
                    /\ response'[w][2] = "task failed: "]_vars

\* The worker task panicked, the handler answered "Error: task failed: ..."
\* and the worker is idle, ready for the next request.
C12_Witness ==
    /\ task[1].pc = "idle"
    /\ Len(response[1]) >= 2
    /\ response[1][1] = "Error: "
    /\ response[1][2] = "task failed: "

\* The request has ended with the empty-capture error of main.rs:72.
NoAudioCaptured(w) ==
    /\ task[w].pc = "joined"
    /\ task[w].result = Err(<<"no audio samples captured">>)

\* C13: in record_and_transcribe a capture of zero samples ends the request
\* with the error "no audio samples captured", which no other failure
\* gives, and neither the model load nor the transcription is run; a
\* capture with samples whose transcription succeeds with the empty text
\* is returned as the empty string and not as an error.
C13_EmptyCaptureSkipsTheEngine ==
    /\ [](\A w \in Workers :
            task[w].kind = "record_and_transcribe" =>
              /\ task[w].pc \in {"load", "transcribe"} => task[w].samples # <<>>
              /\ NoAudioCaptured(w) =>
                    /\ hist[w].loads = 0
                    /\ hist[w].finalTranscribes = 0
                    /\ hist[w].engine = "none"
              /\ task[w].pc = "joined" /\ hist[w].engine = "ok" =>
                    /\ task[w].result = Ok(hist[w].finalText)
                    /\ Message(task[w].result) = hist[w].finalText)
    /\ [][\A w \in Workers :
            /\ task[w].pc = "record" /\ EmptyReturned(w) /\ task'[w] # task[w] =>
                  /\ NoAudioCaptured(w)'
                  /\ hist'[w].loads = 0
            /\ NoAudioCaptured(w) /\ task'[w] # task[w] =>
                  response'[w] = <<"Error: ", "no audio samples captured">>
            /\ NoAudioCaptured(w)' /\ task'[w] # task[w] =>
                  task[w].pc = "record" /\ EmptyReturned(w)]_vars

\* The capture had samples, the engine succeeded with the empty text, and
\* the request has ended with Ok of the empty string.
C13_Witness ==
    /\ task[1].kind = "record_and_transcribe"
    /\ task[1].pc = "joined"
    /\ hist[1].engine = "ok"
    /\ hist[1].finalText = <<>>
    /\ task[1].result = Ok(<<>>)

\* Everything worker w holds is left as it is.
Untouched(w) ==
    /\ task'[w] = task[w]
    /\ rec'[w] = rec[w]
    /\ hist'[w] = hist[w]
    /\ response'[w] = response[w]

\* C14: two requests running at once share no mutable state.  In every
\* interleaving each step changes the variables of one request only (its
\* accumulator, error slot, buffers, elapsed time and session), what a
\* request reads back from its accumulator is what was delivered to its
\* own stream, its session is the one it loaded itself, and an idle worker
\* can accept a request whatever the other request is doing.
C14_RequestsShareNothing ==
    /\ [][\E w \in Workers : \A v \in Workers \ {w} : Untouched(v)]_vars
    /\ [](\A w \in Workers :
            /\ rec[w].rpc = "downmix" => rec[w].raw = hist[w].delivered
            /\ task[w].ctx => hist[w].loads = 1
            /\ task[w].pc = "idle" =>
                  (ENABLED accept_record(w)) /\ (ENABLED accept_listen(w)))
    /\ [][\A w \in Workers :
            task[w].pc = "idle" /\ task'[w].pc # "idle" =>
              /\ task'[w].elapsed = 0
              /\ ~task'[w].ctx
              /\ hist'[w] \in {NoHist, [NoHist EXCEPT !.finalCaptures = 1]}
              /\ response'[w] = <<>>]_vars

\* Worker 1 is blocked in the transcription of a polling chunk while the
\* stream of worker 2, accepted meanwhile, is open, has delivered samples
\* and has reported an error; worker 1's own capture is over.
C14_Witness ==
    /\ task[1].kind = "listen_for_trigger"
    /\ task[1].pc = "transcribe_chunk"
    /\ rec[1] = NoCall
    /\ task[2].kind = "record_and_transcribe"
    /\ rec[2].stream = "playing"
    /\ rec[2].samples # <<>>
    /\ rec[2].err_flag = "StreamError"

\* C15: for every non-empty input and every pair of positive rates the
\* output of resample has ceil(len * to_rate / from_rate) samples.
C15_LengthIsExactCeil ==
    probe.pc = "resampled" /\ probe.input # <<>> =>
        Len(probe.output) = CeilDiv(Len(probe.input) * probe.to_rate, probe.from_rate)

\* C16: resample reads no index outside its input, for every input length
\* and rate pair: each output index reads idx and idx + 1 when idx + 1 is
\* below the length and the last sample otherwise, and the empty input
\* gives the empty output with nothing read.
C16_ReadsStayInBounds ==
    probe.pc = "resampled" =>
        LET n == Len(probe.input)
        IN  /\ ~probe.panicked
            /\ probe.reads \subseteq 0..(n - 1)
            /\ n = 0 => probe.output = <<>> /\ probe.reads = {}
            /\ n > 0 =>
                 \A i \in 0..(Len(probe.output) - 1) :
                    LET idx == SrcIdx(i, probe.from_rate, probe.to_rate)
                    IN  /\ idx + 1 < n =>
                              SourceIndices(idx, n) = {idx, idx + 1}
                        /\ idx + 1 >= n =>
                              /\ SourceIndices(idx, n) = {n - 1}
                              /\ probe.output[i + 1] = probe.input[n]

\* An upsampling call whose last source index, as the f64 product gives
\* it, is the input length itself, so that only the clamp of line 95
\* keeps the read inside; the last sample was read.
C16_Witness ==
    /\ probe.pc = "resampled"
    /\ Len(probe.input) >= 2
    /\ Len(probe.output) > Len(probe.input)
    /\ SrcIdx(Len(probe.output) - 1, probe.from_rate, probe.to_rate) = Len(probe.input)
    /\ Len(probe.input) - 1 \in probe.reads
    /\ ~probe.panicked

\* C17: with two channels or more each mono sample is the arithmetic mean
\* of the values of its frame, for every frame of the buffer, the last one
\* included whatever the length of the buffer, so that identical channels
\* give back their common values; with one channel the buffer is returned
\* as it is.
C17_EveryFrameIsItsMean ==
    probe.pc = "downmixed" =>
        IF probe.channels >= 2
        THEN LET frames == Chunks(probe.input, probe.channels)
             IN  /\ Len(probe.output) = Len(frames)
                 /\ \A f \in 1..Len(frames) :
                       /\ probe.output[f] = RatScale(RatSum(frames[f]), 1, Len(frames[f]))
                       /\ (\A k \in 1..Len(frames[f]) : frames[f][k] = frames[f][1]) =>
                             probe.output[f] = frames[f][1]
        ELSE probe.output = probe.input

\* The character survives the removal of main.rs:123.
Kept(c) == is_alphanumeric(c) \/ is_whitespace(c)

\* The phrase from its j-th character on is spelt by the kept characters of
\* text from position i on, one after the other, whatever removed
\* characters lie between them.
RECURSIVE PhraseFrom(_, _, _)
PhraseFrom(text, i, j) ==
    IF j > Len(TriggerPhrase) THEN TRUE
    ELSE IF i > Len(text) THEN FALSE
    ELSE IF ~Kept(LowerOf(text[i])) THEN PhraseFrom(text, i + 1, j)
    ELSE LowerOf(text[i]) = TriggerPhrase[j] /\ PhraseFrom(text, i + 1, j + 1)

\* C18: a polling chunk triggers exactly when its text, lowercased and
\* with every character that is neither alphanumeric nor whitespace
\* removed, whitespace kept as it is, holds "hey claude code" as a
\* contiguous substring; the test leaves the text as it was.
C18_TriggerIffPhraseInNormalizedText ==
    probe.pc = "tested" =>
        /\ probe.matched <=> \E i \in 1..Len(probe.input) : PhraseFrom(probe.input, i, 1)
        /\ probe.output = probe.input

\* A text that triggers only because its commas were removed, and whose
\* gaps, of one space each, were kept: "so hey,, Claude Code!".
C18_Witness ==
    /\ probe.pc = "tested"
    /\ probe.matched
    /\ probe.input = <<"s", "o", " ", "h", "e", "y", ",", ",", " ",
                       "C", "l", "a", "u", "d", "e", " ", "C", "o", "d", "e", "!">>

\* C19: within an iteration a match wins over the timeout.  A chunk whose
\* text matches sends the call to the capture after the trigger even when
\* the deadline has passed by then; from the match on the timeout is never
\* tested again (the call never returns to the top of the loop), the
\* capture and the transcription after the trigger end only with their own
\* result or failure, and the call never ends with the timeout error.
C19_MatchWinsOverTimeout ==
    /\ [](\A w \in Workers :
            hist[w].matchedAt > 0 =>
              /\ ~TimedOut(w)
              /\ task[w].pc \in {"record_final", "transcribe_final", "joined", "idle"}
              /\ hist[w].finalCaptures = 1)
    /\ [][\A w \in Workers :
            /\ task[w].pc = "transcribe_chunk" /\ hist'[w].matchedAt > 0 =>
                  /\ task'[w].pc = "record_final"
                  /\ rec'[w] = Call(task[w].record_duration)
            /\ hist[w].matchedAt > 0 /\ hist'[w].matchedAt > 0 =>
                  /\ hist'[w].lastCheck = hist[w].lastCheck
                  /\ hist'[w].chunkCaptures = hist[w].chunkCaptures
            /\ task[w].pc = "record_final" /\ task'[w].pc # "record_final" =>
                  \/ task'[w].pc = "transcribe_final"
                  \/ task'[w].pc = "joined" /\ task'[w].result.tag = "panic"
                  \/ /\ task'[w].pc = "joined"
                     /\ task'[w].result.tag = "err"
                     /\ task'[w].result.val[1] \in {"recording failed: ",
                                                    "no audio samples captured after trigger"}
            /\ task[w].pc = "transcribe_final" /\ task'[w].pc # "transcribe_final" =>
                  /\ task'[w].pc = "joined"
                  /\ \/ task'[w].result.tag = "ok"
                     \/ /\ task'[w].result.tag = "err"
                        /\ task'[w].result.val[1] = "transcription failed: "]_vars

\* The chunk was started before the deadline, the deadline passed while it
\* was captured and transcribed, its text matched, and the capture after
\* the trigger has returned with the deadline long passed.
C19_Witness ==
    /\ task[1].pc = "record_final"
    /\ hist[1].matchedAt > 0
    /\ hist[1].lastCheck <= task[1].timeout
    /\ task[1].elapsed > task[1].timeout + 1
    /\ rec[1].rpc = "ret"

\* The call has ended with the final text after a match.
Triggered(w) ==
    /\ task[w].pc = "joined"
    /\ task[w].result.tag = "ok"
    /\ hist[w].matchedAt > 0
    /\ hist[w].finalTranscribes = 1
    /\ task[w].result.val = hist[w].finalText

\* The call has ended with one of the errors of main.rs:99-141, or the
\* worker has panicked.
Failed(w) ==
    /\ task[w].pc = "joined"
    /\ \/ task[w].result.tag = "panic"
       \/ /\ task[w].result.tag = "err"
          /\ task[w].result.val[1] \in {"failed to load model: ", "recording failed: ",
                                        "transcription failed: ",
                                        "no audio samples captured after trigger"}

\* C20: every listen_for_trigger call ends, and ends in exactly one of
\* three ways: with the text captured after a match, with the timeout
\* error (and then no chunk has matched), or with an error of the model
\* load, of a capture, of a transcription or of an empty capture after the
\* trigger (a panic of the worker counts as an error). No run of empty or
\* non-matching chunks keeps the call in its loop for ever.
C20_ListenTerminates ==
    /\ [](task[1].kind = "listen_for_trigger" /\ task[1].pc = "joined" =>
            /\ Triggered(1) \/ TimedOut(1) \/ Failed(1)
            /\ ~(Triggered(1) /\ TimedOut(1))
            /\ ~(Triggered(1) /\ Failed(1))
            /\ ~(TimedOut(1) /\ Failed(1))
            /\ TimedOut(1) => hist[1].matchedAt = 0)
    /\ (task[1].kind = "listen_for_trigger" /\ task[1].pc # "idle")
          ~> (task[1].kind = "listen_for_trigger" /\ task[1].pc = "joined")

\* Witness for C20: a call that has ended by timeout after three chunks,
\* at least one of them empty and at least one transcribed without a match.
C20_Witness ==
    /\ TimedOut(1)
    /\ task[1].kind = "listen_for_trigger"
    /\ hist[1].chunkCaptures = 3
    /\ hist[1].emptyChunks >= 1
    /\ hist[1].chunkTranscribes >= 1

====
